---- MODULE Spec2Model ----
(***************************************************************************)
(* Bounded Voronoi cells of poisvoronoi.py: create_bounded_ridges closes   *)
(* the unbounded ridges of a scipy.spatial.Voronoi diagram on an enclosing *)
(* box with get_crossing_point_rectangle, and get_bounded_polygons          *)
(* assembles the regions, hands the box corners to the nearest seeds and   *)
(* takes the convex hull of every region.                                  *)
(*                                                                         *)
(* Coordinates are exact rationals <<w, r, d>> standing for w + r/d with   *)
(* 0 <= r < d and gcd(r, d) = 1, so that the placeholder distance          *)
(* 999999999 fits beside a fraction.  Python indices are kept 0-based and  *)
(* the sentinel is -1, as in the source.                                   *)
(***************************************************************************)
EXTENDS Integers, Sequences, FiniteSets

VARIABLES
    vor,               \* the raw diagram: points, vertices, ridge_points,
                       \* ridge_vertices, regions, point_region
    encbox,            \* <<xmin, ymin, xmax, ymax>>
    pc,                \* position in plot_bounded_voronoi's two calls
    j,                 \* index of the running loop
    newvorvertices,    \* the augmented vertex table
    newridgevertices,  \* the copy of vor.ridge_vertices being corrected
    newvorregions,     \* the copy of vor.regions being assembled
    convexpolys,       \* the cells returned so far
    v0, alpha, orient, \* arguments of the latest get_crossing_point_rectangle
    p                  \* and the point it returned

vars == <<vor, encbox, pc, j, newvorvertices, newridgevertices,
          newvorregions, convexpolys, v0, alpha, orient, p>>

(***************************************************************************)
(* Bounds of the model.                                                    *)
(***************************************************************************)
\* the box coordinates of the pipeline range over -Margin .. 2 + Margin
Margin == 1
\* the far sides of the boxes handed to the clipper alone range over 1 .. ClipMax
ClipMax == 2

(***************************************************************************)
(* Exact arithmetic, standing for the float arithmetic of the source.      *)
(***************************************************************************)
RECURSIVE GCD(_, _)
GCD(a, b) == IF b = 0 THEN a ELSE GCD(b, a % b)

\* w + n/d for any integer n and d > 0, in normal form
Q(w, n, d) ==
    LET r == n % d
        g == GCD(d, r)
    IN <<w + (n \div d), r \div g, d \div g>>

QInt(i) == <<i, 0, 1>>
Zero == QInt(0)
Frac(n, d) == Q(0, n, d)

QAdd(a, b) == Q(a[1] + b[1], a[2] * b[3] + b[2] * a[3], a[3] * b[3])
QNeg(a) == IF a[2] = 0 THEN <<0 - a[1], 0, 1>> ELSE <<0 - a[1] - 1, a[3] - a[2], a[3]>>
QSub(a, b) == QAdd(a, QNeg(b))
QLt(a, b) == \/ a[1] < b[1]
             \/ a[1] = b[1] /\ a[2] * b[3] < b[2] * a[3]
QLe(a, b) == a = b \/ QLt(a, b)
\* the integer w times the fraction r/d
IntFrac(w, r, d) == Q((w \div d) * r, (w % d) * r, d)
QMul(a, b) ==
    QAdd(QAdd(QInt(a[1] * b[1]), IntFrac(a[1], b[2], b[3])),
         QAdd(IntFrac(b[1], a[2], a[3]), Q(0, a[2] * b[2], a[3] * b[3])))
\* 1/a for a # 0
QInv(a) ==
    LET n == a[1] * a[3] + a[2]
    IN IF n > 0 THEN Q(0, a[3], n) ELSE Q(0, 0 - a[3], 0 - n)
QDiv(a, b) == QMul(a, QInv(b))
\* np.sign
Sign(a) == IF QLt(a, Zero) THEN QInt(-1) ELSE IF a = Zero THEN Zero ELSE QInt(1)

\* seq[i] of Python: 0-based, a negative index counts from the end
PyIndex(seq, i) == IF i < 0 THEN seq[Len(seq) + i + 1] ELSE seq[i + 1]

Pt(x, y) == <<QInt(x), QInt(y)>>

(***************************************************************************)
(* get_crossing_point_rectangle                                            *)
(***************************************************************************)
InitialMinDist == 999999999

\* the signed distance d of the loop body for the j-th bound of the box
CrossingDist(jj, origin, dir, sgn, box) ==
    LET i == jj % 2
        c == PyIndex(box, jj)
        d == QSub(c, PyIndex(origin, i))
    IN IF PyIndex(dir, i) = Zero
       THEN QMul(d, sgn)
       ELSE QMul(QDiv(d, PyIndex(dir, i)), sgn)

\* the loop over xmin, ymin, xmax, ymax from bound jj on
RECURSIVE ScanBox(_, _, _, _, _, _)
ScanBox(jj, mindist, origin, dir, sgn, box) ==
    IF jj = Len(box) THEN mindist
    ELSE LET d == CrossingDist(jj, origin, dir, sgn, box)
         IN ScanBox(jj + 1,
                    IF QLt(d, Zero) THEN mindist
                    ELSE IF QLt(d, mindist) THEN d ELSE mindist,
                    origin, dir, sgn, box)

get_crossing_point_rectangle(origin, dir, sgn, box) ==
    LET mindist == ScanBox(0, QInt(InitialMinDist), origin, dir, sgn, box)
    IN <<QAdd(origin[1], QMul(QMul(sgn, dir[1]), mindist)),
         QAdd(origin[2], QMul(QMul(sgn, dir[2]), mindist))>>

(***************************************************************************)
(* Raw diagrams, as scipy.spatial.Voronoi returns them for three seed      *)
(* sets: the unit square, the right triangle with sides 3/2, 2, 5/2, and   *)
(* the square of side 2 with its centre (whose region is closed).  Every   *)
(* diagram carries the empty region scipy adds.                            *)
(***************************************************************************)
DiagramIds == {1, 2, 3}

Diagram(k) ==
    CASE k = 1 ->
        [points |-> <<Pt(0, 0), Pt(1, 0), Pt(0, 1), Pt(1, 1)>>,
         vertices |-> << <<Frac(1, 2), Frac(1, 2)>> >>,
         ridge_points |-> << <<0, 1>>, <<0, 2>>, <<1, 3>>, <<2, 3>> >>,
         ridge_vertices |-> << <<-1, 0>>, <<-1, 0>>, <<-1, 0>>, <<-1, 0>> >>,
         regions |-> << <<>>, <<-1, 0>>, <<-1, 0>>, <<-1, 0>>, <<-1, 0>> >>,
         point_region |-> <<1, 2, 3, 4>>]
      [] k = 2 ->
        [points |-> <<Pt(0, 0), <<Frac(3, 2), Zero>>, Pt(0, 2)>>,
         vertices |-> << <<Frac(3, 4), QInt(1)>> >>,
         ridge_points |-> << <<0, 1>>, <<0, 2>>, <<1, 2>> >>,
         ridge_vertices |-> << <<-1, 0>>, <<0, -1>>, <<-1, 0>> >>,
         regions |-> << <<-1, 0>>, <<>>, <<0, -1>>, <<-1, 0>> >>,
         point_region |-> <<0, 2, 3>>]
      [] k = 3 ->
        [points |-> <<Pt(0, 0), Pt(2, 0), Pt(0, 2), Pt(2, 2), Pt(1, 1)>>,
         vertices |-> <<Pt(1, 0), Pt(0, 1), Pt(2, 1), Pt(1, 2)>>,
         ridge_points |-> << <<0, 4>>, <<0, 1>>, <<1, 4>>, <<0, 2>>,
                             <<2, 4>>, <<1, 3>>, <<3, 4>>, <<2, 3>> >>,
         ridge_vertices |-> << <<0, 1>>, <<-1, 0>>, <<0, 2>>, <<-1, 1>>,
                               <<1, 3>>, <<-1, 2>>, <<2, 3>>, <<-1, 3>> >>,
         regions |-> << <<-1, 0, 1>>, <<0, -1, 2>>, <<>>, <<1, 3, -1>>,
                        <<-1, 2, 3>>, <<0, 2, 3, 1>> >>,
         point_region |-> <<0, 1, 3, 4, 5>>]

BoxCoords == (0 - Margin) .. (2 + Margin)
Boxes == {<<QInt(x0), QInt(y0), QInt(x1), QInt(y1)>> :
            x0 \in BoxCoords, y0 \in BoxCoords, x1 \in BoxCoords, y1 \in BoxCoords}
EncBoxes == {b \in Boxes : QLt(b[1], b[3]) /\ QLt(b[2], b[4])}

Origin == <<Zero, Zero>>
Range(seq) == {seq[i] : i \in DOMAIN seq}
HasSentinel(seq) == -1 \in Range(seq)

(***************************************************************************)
(* create_bounded_ridges                                                   *)
(***************************************************************************)
PtAdd(a, b) == <<QAdd(a[1], b[1]), QAdd(a[2], b[2])>>
PtSub(a, b) == <<QSub(a[1], b[1]), QSub(a[2], b[2])>>
PtScale(a, s) == <<QMul(a[1], s), QMul(a[2], s)>>
Dot(a, b) == QAdd(QMul(a[1], b[1]), QMul(a[2], b[2]))

RECURSIVE PtSum(_)
PtSum(seq) == IF seq = <<>> THEN Origin ELSE PtAdd(Head(seq), PtSum(Tail(seq)))
\* pts.mean(axis=0)
Mean(seq) == PtScale(PtSum(seq), Frac(1, Len(seq)))

\* the square root of a rational square: the seeds of the diagrams above lie at
\* rational distances along every unbounded ridge
ISqrt(n) == CHOOSE s \in 0 .. n : s * s = n
QSqrt(a) == Q(0, ISqrt(a[1] * a[3] + a[2]), ISqrt(a[3]))
\* np.linalg.norm
Norm(t) == QSqrt(Dot(t, t))

\* the unit normal of the ridge between the seeds pointidx
RidgeNormal(points, pointidx) ==
    LET t0 == PtSub(PyIndex(points, pointidx[2]), PyIndex(points, pointidx[1]))
        t == PtScale(t0, QInv(Norm(t0)))
    IN <<QNeg(t[2]), t[1]>>

\* the orientation taken from the centre towards the midpoint reversed
RidgeOrientReversed(points, pointidx, n) ==
    LET center == Mean(points)
        midpoint == Mean(<<PyIndex(points, pointidx[1]), PyIndex(points, pointidx[2])>>)
    IN Sign(Dot(PtSub(center, midpoint), n))

RidgeOrient(points, pointidx, n) ==
    LET center == Mean(points)
        midpoint == Mean(<<PyIndex(points, pointidx[1]), PyIndex(points, pointidx[2])>>)
    IN Sign(Dot(PtSub(midpoint, center), n))

\* simplex[simplex >= 0][0]
FirstFinite(simplex) == IF simplex[1] >= 0 THEN simplex[1] ELSE simplex[2]
\* np.where(simplex < 0)[0][0]
FirstSentinel(simplex) == IF simplex[1] < 0 THEN 0 ELSE 1

\* the index read after the append instead of before it
NextIndexStale(table) == Len(table) - 1

\* the new row put in front of the table
RowStackFront(table, pt) == <<pt>> \o table

\* the write done without the deep copy: the raw table is the same object
SetRidgeVertexInPlace(raw, copy, jj, ii, kk) ==
    [raw |-> [raw EXCEPT ![jj + 1][ii + 1] = kk],
     copy |-> [copy EXCEPT ![jj + 1][ii + 1] = kk]]

\* the index a vertex appended to the table receives
NextIndex(table) == Len(table)
\* np.row_stack((table, pt))
RowStack(table, pt) == Append(table, pt)

\* newridgevertices[jj][ii] = kk on the deep copy of vor.ridge_vertices
SetRidgeVertex(raw, copy, jj, ii, kk) ==
    [raw |-> raw, copy |-> [copy EXCEPT ![jj + 1][ii + 1] = kk]]

\* center, newvorvertices, newridgevertices of the function's first lines
EnterRidges ==
    /\ pc = "start"
    /\ newvorvertices' = vor.vertices
    /\ newridgevertices' = vor.ridge_vertices
    /\ j' = 0
    /\ pc' = "ridges"
    /\ UNCHANGED <<vor, encbox, newvorregions, convexpolys, v0, alpha, orient, p>>

\* one iteration of the loop over the ridges
RidgeStep ==
    /\ pc = "ridges"
    /\ j < Len(vor.ridge_vertices)
    /\ LET pointidx == PyIndex(vor.ridge_points, j)
           simplex == PyIndex(vor.ridge_vertices, j)
       IN IF \E x \in Range(simplex) : x < 0
          THEN LET i == FirstFinite(simplex)
                   n == RidgeNormal(vor.points, pointidx)
                   o == RidgeOrient(vor.points, pointidx, n)
                   far_point_clipped ==
                       get_crossing_point_rectangle(PyIndex(vor.vertices, i), n, o, encbox)
                   ii == FirstSentinel(simplex)
                   kk == NextIndex(newvorvertices)
                   st == SetRidgeVertex(vor.ridge_vertices, newridgevertices, j, ii, kk)
               IN /\ v0' = PyIndex(vor.vertices, i)
                  /\ alpha' = n
                  /\ orient' = o
                  /\ p' = far_point_clipped
                  /\ vor' = [vor EXCEPT !.ridge_vertices = st.raw]
                  /\ newridgevertices' = st.copy
                  /\ newvorvertices' = RowStack(newvorvertices, far_point_clipped)
          ELSE UNCHANGED <<vor, newridgevertices, newvorvertices, v0, alpha, orient, p>>
    /\ j' = j + 1
    /\ UNCHANGED <<encbox, pc, newvorregions, convexpolys>>

(***************************************************************************)
(* get_bounded_polygons                                                    *)
(***************************************************************************)
\* np.where(vor.point_region == regidx)[0]
SeedsOf(point_region, regidx) ==
    LET RECURSIVE Scan(_)
        Scan(s) == IF s = Len(point_region) THEN <<>>
                   ELSE IF PyIndex(point_region, s) = regidx
                        THEN <<s>> \o Scan(s + 1)
                        ELSE Scan(s + 1)
    IN Scan(0)

\* np.any(ridgepts == seedidx): numpy compares a pair with one seed by
\* broadcasting, with two seeds slot by slot, and with none to False
RidgeTouchesSeed(ridgepts, seedidx) ==
    CASE Len(seedidx) = 1 -> ridgepts[1] = seedidx[1] \/ ridgepts[2] = seedidx[1]
      [] Len(seedidx) = 2 -> ridgepts[1] = seedidx[1] \/ ridgepts[2] = seedidx[2]
      [] OTHER -> FALSE

\* the finite slot of the ridge taken for the clipped one
MyIdxFinite(ridgevs) == IF ridgevs[1] = -1 THEN 1 ELSE 0

\* the slot of a ridge the clipped index was written to
MyIdx(ridgevs) == IF ridgevs[1] = -1 THEN 0 ELSE 1

\* the loop over the ridges bounding the seed, from ridge ridgeid on
RECURSIVE AppendClipped(_, _, _, _, _)
AppendClipped(reg, ridgeid, seedidx, raw, newridges) ==
    IF ridgeid = Len(raw.ridge_points) THEN reg
    ELSE LET ridgepts == PyIndex(raw.ridge_points, ridgeid)
             ridgevs == PyIndex(raw.ridge_vertices, ridgeid)
         IN AppendClipped(
                IF RidgeTouchesSeed(ridgepts, seedidx) /\ HasSentinel(ridgevs)
                THEN Append(reg, PyIndex(PyIndex(newridges, ridgeid), MyIdx(ridgevs)))
                ELSE reg,
                ridgeid + 1, seedidx, raw, newridges)

\* list.remove(x): the first occurrence only
RECURSIVE RemoveFirst(_, _)
RemoveFirst(seq, x) ==
    IF seq = <<>> THEN <<>>
    ELSE IF Head(seq) = x THEN Tail(seq)
         ELSE <<Head(seq)>> \o RemoveFirst(Tail(seq), x)

\* the sentinel left in the region
RemoveSentinelSkipped(reg) == reg

\* if -1 in region: region.remove(-1)
RemoveSentinel(reg) == IF HasSentinel(reg) THEN RemoveFirst(reg, -1) ELSE reg

\* the body of the assembly loop for an open region rr
AssembleRegion(rr, regidx, raw, newridges) ==
    LET seedidx == SeedsOf(raw.point_region, regidx)
        reg == AppendClipped(rr, 0, seedidx, raw, newridges)
    IN RemoveSentinel(reg)

\* create_bounded_ridges returns; newvorregions is the copy of vor.regions
EnterPolygons ==
    /\ pc = "ridges"
    /\ j = Len(vor.ridge_vertices)
    /\ newvorregions' = vor.regions
    /\ j' = 0
    /\ pc' = "regions"
    /\ UNCHANGED <<vor, encbox, newvorvertices, newridgevertices, convexpolys,
                   v0, alpha, orient, p>>

\* one iteration of the loop over vor.regions
RegionStep ==
    /\ pc = "regions"
    /\ j < Len(vor.regions)
    /\ LET rr == PyIndex(vor.regions, j)
       IN newvorregions' =
            IF HasSentinel(rr)
            THEN [newvorregions EXCEPT ![j + 1] = AssembleRegion(rr, j, vor, newridgevertices)]
            ELSE newvorregions
    /\ j' = j + 1
    /\ UNCHANGED <<vor, encbox, pc, newvorvertices, newridgevertices, convexpolys,
                   v0, alpha, orient, p>>

\* the loop is over; tree and corners are built
EnterCorners ==
    /\ pc = "regions"
    /\ j = Len(vor.regions)
    /\ j' = 0
    /\ pc' = "corners"
    /\ UNCHANGED <<vor, encbox, newvorvertices, newridgevertices, newvorregions,
                   convexpolys, v0, alpha, orient, p>>

\* itertools.product((xmin, xmax), (ymin, ymax))
Corners(box) == << <<box[1], box[2]>>, <<box[1], box[4]>>,
                   <<box[3], box[2]>>, <<box[3], box[4]>> >>

Dist2(a, b) == Dot(PtSub(a, b), PtSub(a, b))
\* the seeds tree.query(c) may return: those at the least distance
Nearest(points, c) ==
    {s \in 0 .. Len(points) - 1 :
        \A t \in 0 .. Len(points) - 1 :
            QLe(Dist2(PyIndex(points, s), c), Dist2(PyIndex(points, t), c))}

\* np.array of the ragged regions is an array of arrays (numpy before 1.24);
\* the open regions were replaced by lists in the assembly loop, the others
\* are still arrays, which have no append
IsList(raw, regidx) == HasSentinel(PyIndex(raw.regions, regidx))

\* one iteration of the loop over the corners
CornerStep ==
    /\ pc = "corners"
    /\ j < Len(Corners(encbox))
    /\ \E idx \in Nearest(vor.points, PyIndex(Corners(encbox), j)) :
         LET c == PyIndex(Corners(encbox), j)
             k == NextIndex(newvorvertices)
             regidx == PyIndex(vor.point_region, idx)
         IN /\ newvorvertices' = RowStack(newvorvertices, c)
            /\ \/ /\ IsList(vor, regidx)
                  /\ newvorregions' =
                       [newvorregions EXCEPT ![regidx + 1] = Append(@, k)]
                  /\ j' = j + 1
                  /\ pc' = pc
               \/ /\ ~IsList(vor, regidx)
                  /\ pc' = "AttributeError"
                  /\ UNCHANGED <<newvorregions, j>>
    /\ UNCHANGED <<vor, encbox, newridgevertices, convexpolys, v0, alpha, orient, p>>

EnterHulls ==
    /\ pc = "corners"
    /\ j = Len(Corners(encbox))
    /\ j' = 0
    /\ convexpolys' = <<>>
    /\ pc' = "hulls"
    /\ UNCHANGED <<vor, encbox, newvorvertices, newridgevertices, newvorregions,
                   v0, alpha, orient, p>>

\* newvorvertices[reg], as the set of its points
RegionPoints(table, reg) == {PyIndex(table, i) : i \in Range(reg)}

\* Naturals of any size, as their digits in base 1000 from the least one on:
\* the products of Qhull's orientation tests on a point clipped at the
\* placeholder distance do not fit TLC's integers
RECURSIVE ToBig(_)
ToBig(n) == IF n = 0 THEN <<>> ELSE <<n % 1000>> \o ToBig(n \div 1000)

RECURSIVE BigCarry(_, _)
BigCarry(digits, carry) ==
    IF digits = <<>> THEN ToBig(carry)
    ELSE <<(Head(digits) + carry) % 1000>>
         \o BigCarry(Tail(digits), (Head(digits) + carry) \div 1000)

RECURSIVE BigSum(_, _)
BigSum(a, b) ==
    IF a = <<>> THEN b
    ELSE IF b = <<>> THEN a
    ELSE <<Head(a) + Head(b)>> \o BigSum(Tail(a), Tail(b))
BigAdd(a, b) == BigCarry(BigSum(a, b), 0)

\* a times the small natural k
BigScale(a, k) == IF k = 0 THEN <<>> ELSE BigCarry([i \in DOMAIN a |-> a[i] * k], 0)

RECURSIVE BigMul(_, _)
BigMul(a, b) ==
    IF a = <<>> \/ b = <<>> THEN <<>>
    ELSE BigAdd(BigScale(b, Head(a)),
                LET rest == BigMul(Tail(a), b)
                IN IF rest = <<>> THEN <<>> ELSE <<0>> \o rest)

\* -1, 0, 1 as a < b, a = b, a > b
RECURSIVE BigCmp(_, _)
BigCmp(a, b) ==
    IF Len(a) # Len(b) THEN (IF Len(a) < Len(b) THEN -1 ELSE 1)
    ELSE IF a = <<>> THEN 0
    ELSE LET n == Len(a)
         IN IF a[n] # b[n] THEN (IF a[n] < b[n] THEN -1 ELSE 1)
            ELSE BigCmp(SubSeq(a, 1, n - 1), SubSeq(b, 1, n - 1))

QAbs(a) == IF QLt(a, Zero) THEN QNeg(a) ELSE a
SignInt(a) == IF QLt(a, Zero) THEN -1 ELSE IF a = Zero THEN 0 ELSE 1
\* the numerator of |a| over the denominator a[3]
BigNum(a) == LET m == QAbs(a) IN BigAdd(BigScale(ToBig(m[1]), m[3]), ToBig(m[2]))
Small(a) == -10000 < a[1] /\ a[1] < 10000

\* the sign of x1 * y1 - x2 * y2
DetSign(x1, y1, x2, y2) ==
    IF Small(x1) /\ Small(y1) /\ Small(x2) /\ Small(y2)
    THEN SignInt(QSub(QMul(x1, y1), QMul(x2, y2)))
    ELSE LET s1 == SignInt(x1) * SignInt(y1)
             s2 == SignInt(x2) * SignInt(y2)
             m1 == BigScale(BigScale(BigMul(BigNum(x1), BigNum(y1)), x2[3]), y2[3])
             m2 == BigScale(BigScale(BigMul(BigNum(x2), BigNum(y2)), x1[3]), y1[3])
         IN IF s1 # s2 THEN (IF s1 < s2 THEN -1 ELSE 1)
            ELSE s1 * BigCmp(m1, m2)

\* the side of c on the line a -> b: 1 left, 0 on it, -1 right
Orientation(a, b, c) ==
    DetSign(QSub(b[1], a[1]), QSub(c[2], a[2]), QSub(b[2], a[2]), QSub(c[1], a[1]))

\* Qhull refuses an input without three points that span the plane
Degenerate(S) == \A a \in S, b \in S, c \in S : Orientation(a, b, c) = 0

\* c lies strictly between a and b on their line
Between(a, b, c) ==
    /\ DetSign(QSub(c[1], a[1]), QSub(b[1], a[1]), QSub(a[2], c[2]), QSub(b[2], a[2])) = 1
    /\ DetSign(QSub(c[1], b[1]), QSub(a[1], b[1]), QSub(b[2], c[2]), QSub(a[2], b[2])) = 1

\* points[hull.vertices], counterclockwise: the ring as the set of its directed
\* edges (where the ring starts is Qhull's choice and is not represented)
ConvexHull(S) ==
    {e \in S \X S :
        /\ e[1] # e[2]
        /\ \A c \in S : Orientation(e[1], e[2], c) >= 0
        /\ \A c \in S \ {e[1], e[2]} :
              Orientation(e[1], e[2], c) = 0 => Between(e[1], e[2], c)}

\* one iteration of the loop over the assembled regions
HullStep ==
    /\ pc = "hulls"
    /\ j < Len(newvorregions)
    /\ LET reg == PyIndex(newvorregions, j)
           points == RegionPoints(newvorvertices, reg)
       IN \/ /\ Len(reg) = 0
             /\ j' = j + 1
             /\ UNCHANGED <<pc, convexpolys>>
          \/ /\ Len(reg) # 0
             /\ ~Degenerate(points)
             /\ convexpolys' = Append(convexpolys, ConvexHull(points))
             /\ j' = j + 1
             /\ pc' = pc
          \/ /\ Len(reg) # 0
             /\ Degenerate(points)
             /\ pc' = "QhullError"
             /\ UNCHANGED <<j, convexpolys>>
    /\ UNCHANGED <<vor, encbox, newvorvertices, newridgevertices, newvorregions,
                   v0, alpha, orient, p>>

Return ==
    /\ pc = "hulls"
    /\ j = Len(newvorregions)
    /\ pc' = "done"
    /\ UNCHANGED <<vor, encbox, j, newvorvertices, newridgevertices, newvorregions,
                   convexpolys, v0, alpha, orient, p>>

(***************************************************************************)
(* plot_bounded_voronoi on a diagram and a box                             *)
(***************************************************************************)
Init ==
    /\ \E k \in DiagramIds : vor = Diagram(k)
    /\ encbox \in EncBoxes
    /\ pc = "start"
    /\ j = 0
    /\ newvorvertices = <<>>
    /\ newridgevertices = <<>>
    /\ newvorregions = <<>>
    /\ convexpolys = <<>>
    /\ v0 = Origin
    /\ alpha = Origin
    /\ orient = Zero
    /\ p = Origin

Next ==
    \/ EnterRidges
    \/ RidgeStep
    \/ EnterPolygons
    \/ RegionStep
    \/ EnterCorners
    \/ CornerStep
    \/ EnterHulls
    \/ HullStep
    \/ Return

Spec == Init /\ [][Next]_vars

(***************************************************************************)
(* get_crossing_point_rectangle alone, on every input of a small grid      *)
(***************************************************************************)
ClipBoxes == {<<QInt(x0), QInt(y0), QInt(x1), QInt(y1)>> :
                x0 \in -1 .. 0, y0 \in -1 .. 0, x1 \in 1 .. ClipMax, y1 \in 1 .. ClipMax}
ClipOrigins == {Pt(x, y) : x \in -2 .. ClipMax + 1, y \in -2 .. ClipMax + 1}
ClipDirs == {Pt(x, y) : x \in -2 .. 2, y \in -2 .. 2}

InitClip ==
    /\ vor = Diagram(1)
    /\ encbox \in ClipBoxes
    /\ v0 \in ClipOrigins
    /\ alpha \in ClipDirs
    /\ orient \in {QInt(-1), QInt(1)}
    /\ p = Origin
    /\ pc = "clip"
    /\ j = 0
    /\ newvorvertices = <<>>
    /\ newridgevertices = <<>>
    /\ newvorregions = <<>>
    /\ convexpolys = <<>>

ClipCall ==
    /\ pc = "clip"
    /\ p' = get_crossing_point_rectangle(v0, alpha, orient, encbox)
    /\ pc' = "returned"
    /\ UNCHANGED <<vor, encbox, j, newvorvertices, newridgevertices, newvorregions,
                   convexpolys, v0, alpha, orient>>

NextClip == ClipCall

SpecClip == InitClip /\ [][NextClip]_vars

(***************************************************************************)
(* Geometry the properties are stated with                                 *)
(***************************************************************************)
InBox(pt, box) ==
    /\ QLe(box[1], pt[1]) /\ QLe(pt[1], box[3])
    /\ QLe(box[2], pt[2]) /\ QLe(pt[2], box[4])

OnBoundary(pt, box) ==
    pt[1] = box[1] \/ pt[1] = box[3] \/ pt[2] = box[2] \/ pt[2] = box[4]

\* the seeds and the finite vertices of the diagram lie in the box
Contained(raw, box) ==
    /\ \A s \in Range(raw.points) : InBox(s, box)
    /\ \A v \in Range(raw.vertices) : InBox(v, box)

RingPoints(ring) == {e[1] : e \in ring}

RECURSIVE QSum(_)
QSum(S) == IF S = {} THEN Zero
           ELSE LET e == CHOOSE x \in S : TRUE IN QAdd(e[2], QSum(S \ {e}))

\* twice the area enclosed by a counterclockwise ring (the shoelace formula)
RingArea2(ring) ==
    QSum({<<e, QSub(QMul(e[1][1], e[2][2]), QMul(e[2][1], e[1][2]))>> : e \in ring})

\* two convex rings share no interior point: an edge of one has the other
\* wholly on its outer side
Apart(A, B) ==
    \/ \E e \in A : \A v \in RingPoints(B) : Orientation(e[1], e[2], v) <= 0
    \/ \E e \in B : \A v \in RingPoints(A) : Orientation(e[1], e[2], v) <= 0

BoxArea2(box) == QMul(QInt(2), QMul(QSub(box[3], box[1]), QSub(box[4], box[2])))

\* the cells lie in the box, overlap nowhere and leave no part of it free
Tiles(cells, box) ==
    /\ \A i \in DOMAIN cells : \A v \in RingPoints(cells[i]) : InBox(v, box)
    /\ \A i \in DOMAIN cells : \A k \in DOMAIN cells : i < k => Apart(cells[i], cells[k])
    /\ QSum({<<i, RingArea2(cells[i])>> : i \in DOMAIN cells}) = BoxArea2(box)

SeedIds(raw) == 0 .. Len(raw.points) - 1
RegionIds(raw) == 0 .. Len(raw.regions) - 1
RidgeIds(raw) == 0 .. Len(raw.ridge_vertices) - 1
Unbounded(raw) == {r \in RidgeIds(raw) : HasSentinel(PyIndex(raw.ridge_vertices, r))}
\* the slot of the ridge that holds the sentinel in the raw diagram
SentinelSlot(raw, r) ==
    CHOOSE i \in 0 .. 1 : PyIndex(PyIndex(raw.ridge_vertices, r), i) = -1

AfterRidges == pc \in {"regions", "corners", "hulls", "done", "QhullError", "AttributeError"}
AfterAssembly ==
    \/ pc = "regions" /\ j = Len(vor.regions)
    \/ pc \in {"corners", "hulls", "done", "QhullError", "AttributeError"}

(***************************************************************************)
(* C1: for an origin inside or on the box, a non-zero direction (one       *)
(* component may be 0) and orient +1 or -1, the point returned by          *)
(* get_crossing_point_rectangle lies in the closed box and on its boundary.*)
(***************************************************************************)
C1_ClipReturnsBoundaryPoint ==
    (pc = "returned" /\ InBox(v0, encbox) /\ alpha # Origin)
        => (InBox(p, encbox) /\ OnBoundary(p, encbox))

NoCrossing(origin, dir, sgn, box) ==
    \A jj \in 0 .. 3 : QLt(CrossingDist(jj, origin, dir, sgn, box), Zero)

ClipPreconditionBroken ==
    \/ alpha = Origin
    \/ ~InBox(v0, encbox)
    \/ NoCrossing(v0, alpha, orient, encbox)

(***************************************************************************)
(* C9: get_crossing_point_rectangle never returns a point when no bound of *)
(* the box is reached at a non-negative distance, when the direction is    *)
(* zero or when the origin is outside the box.                             *)
(***************************************************************************)
C9_ClipFailureNeverReturns == ClipPreconditionBroken => pc # "returned"

(***************************************************************************)
(* C2: when the seeds and the finite vertices lie in the box, the cells    *)
(* returned tile the box: none leaves it, no two overlap, nothing is left  *)
(* uncovered.                                                              *)
(***************************************************************************)
C2_CellsTileBox ==
    (pc = "done" /\ Contained(vor, encbox)) => Tiles(convexpolys, encbox)

ScenarioBox == <<QInt(-1), QInt(-1), QInt(2), QInt(2)>>
InScenario == vor = Diagram(1) /\ encbox = ScenarioBox /\ pc = "done"

\* the cell of seed s: the regions are hulled in order, the empty ones skipped
CellOf(s) ==
    convexpolys[Cardinality({r \in 0 .. PyIndex(vor.point_region, s) :
                                Len(PyIndex(newvorregions, r)) # 0})]

NearestCorner(s) ==
    CHOOSE c \in Range(Corners(encbox)) :
        \A o \in Range(Corners(encbox)) :
            QLe(Dist2(c, PyIndex(vor.points, s)), Dist2(o, PyIndex(vor.points, s)))

(***************************************************************************)
(* C3: for the seeds (0,0), (1,0), (0,1), (1,1) and the box (-1,-1,2,2)    *)
(* there are 4 cells of 4 vertices each: the vertex (1/2,1/2), a clipped   *)
(* endpoint on the box boundary with x = 1/2, one with y = 1/2, and the    *)
(* box corner nearest to the cell's seed; the cells tile the box.          *)
(***************************************************************************)
C3_FourSeedsFourQuadrilaterals ==
    InScenario =>
        /\ Len(convexpolys) = 4
        /\ \A s \in SeedIds(vor) :
              LET cell == RingPoints(CellOf(s))
                  half == Frac(1, 2)
                  corner == NearestCorner(s)
              IN /\ Cardinality(cell) = 4
                 /\ Cardinality(CellOf(s)) = 4
                 /\ <<half, half>> \in cell
                 /\ corner \in cell
                 /\ \E a \in cell : a[1] = half /\ a # <<half, half>>
                                    /\ OnBoundary(a, encbox) /\ a[2] = corner[2]
                 /\ \E b \in cell : b[2] = half /\ b # <<half, half>>
                                    /\ OnBoundary(b, encbox) /\ b[1] = corner[1]
        /\ Tiles(convexpolys, encbox)

C3_Witness == InScenario /\ Len(convexpolys) = 4

CornersProcessed == IF pc = "corners" THEN j ELSE Len(Corners(encbox))
CornerIndex(c) == Len(newvorvertices) - CornersProcessed + c
RegionsHolding(k) == {r \in RegionIds(vor) : k \in Range(PyIndex(newvorregions, r))}

(***************************************************************************)
(* C4: every corner processed by the corner loop was appended as a new     *)
(* vertex whose index lies in exactly one region, the region of a seed     *)
(* nearest to that corner.                                                 *)
(***************************************************************************)
C4_CornerInExactlyOneRegion ==
    pc \in {"corners", "hulls", "done", "QhullError"} =>
        \A c \in 0 .. CornersProcessed - 1 :
            LET corner == PyIndex(Corners(encbox), c)
            IN /\ PyIndex(newvorvertices, CornerIndex(c)) = corner
               /\ Cardinality(RegionsHolding(CornerIndex(c))) = 1
               /\ \E s \in SeedIds(vor) :
                     /\ \A t \in SeedIds(vor) :
                           QLe(Dist2(PyIndex(vor.points, s), corner),
                               Dist2(PyIndex(vor.points, t), corner))
                     /\ RegionsHolding(CornerIndex(c)) = {PyIndex(vor.point_region, s)}

C4_Witness ==
    /\ pc = "done"
    /\ \A c \in 0 .. 3 : RegionsHolding(CornerIndex(c)) # {}
    /\ \E c \in 0 .. 3, d \in 0 .. 3 :
          c # d /\ RegionsHolding(CornerIndex(c)) = RegionsHolding(CornerIndex(d))

(***************************************************************************)
(* C5: after the assembly loop no region holds the sentinel -1, and the    *)
(* region of every seed is a non-empty set of indices into the augmented   *)
(* vertex table.                                                           *)
(***************************************************************************)
C5_NoSentinelAfterAssembly ==
    AfterAssembly =>
        /\ \A r \in RegionIds(vor) : ~HasSentinel(PyIndex(newvorregions, r))
        /\ \A s \in SeedIds(vor) :
              LET reg == PyIndex(newvorregions, PyIndex(vor.point_region, s))
              IN /\ reg # <<>>
                 /\ \A i \in Range(reg) : 0 <= i /\ i < Len(newvorvertices)

C5_Witness ==
    /\ pc = "corners" /\ j = 0
    /\ \E r \in RegionIds(vor) :
          /\ HasSentinel(PyIndex(vor.regions, r))
          /\ Len(PyIndex(newvorregions, r)) > Len(PyIndex(vor.regions, r))

RecordedInRidge(k) ==
    /\ pc = "ridges"
    /\ \E i \in 0 .. 1 :
          /\ PyIndex(PyIndex(newridgevertices, j), i) = -1
          /\ PyIndex(PyIndex(newridgevertices', j), i) = k
    /\ PyIndex(newvorvertices', k) = p'

RecordedInRegion(k) ==
    /\ pc = "corners"
    /\ PyIndex(newvorvertices', k) = PyIndex(Corners(encbox), j)
    /\ \/ pc' = "AttributeError"
       \/ \E r \in RegionIds(vor) :
             PyIndex(newvorregions', r) = Append(PyIndex(newvorregions, r), k)

AppendOnlyStep ==
    /\ pc = "start" => newvorvertices' = vor.vertices
    /\ pc \notin {"start", "clip"} =>
        /\ Len(newvorvertices') \in {Len(newvorvertices), Len(newvorvertices) + 1}
        /\ \A i \in 0 .. Len(newvorvertices) - 1 :
              PyIndex(newvorvertices', i) = PyIndex(newvorvertices, i)
        /\ Len(newvorvertices') = Len(newvorvertices) + 1 =>
              \/ RecordedInRidge(Len(newvorvertices))
              \/ RecordedInRegion(Len(newvorvertices))

(***************************************************************************)
(* C6: once copied from the raw diagram the vertex table is append-only:   *)
(* a step leaves every stored vertex at its index, adds at most one        *)
(* vertex, and the index recorded for it (in the ridge slot that held the  *)
(* sentinel, or at the end of a region) is the length of the table before  *)
(* the step, where the clipped point or the corner is then found.          *)
(***************************************************************************)
C6_VertexTableAppendOnly == [][AppendOnlyStep]_vars

C6_Witness ==
    /\ pc = "done"
    /\ Len(newvorvertices) = Len(vor.vertices) + Cardinality(Unbounded(vor)) + 4
    /\ Unbounded(vor) # {}

CorrectedRidges(table, raw) ==
    /\ Len(table) = Len(raw.ridge_vertices)
    /\ \A r \in RidgeIds(raw) :
          /\ ~HasSentinel(PyIndex(table, r))
          /\ \A i \in 0 .. 1 :
                PyIndex(PyIndex(raw.ridge_vertices, r), i) # -1 =>
                    PyIndex(PyIndex(table, r), i) = PyIndex(PyIndex(raw.ridge_vertices, r), i)

RawUntouchedStep ==
    /\ vor' = vor
    /\ (pc = "ridges" /\ pc' = "regions") => CorrectedRidges(newridgevertices', vor')
    /\ AfterRidges => newridgevertices' = newridgevertices

(***************************************************************************)
(* C7: no step changes the raw diagram, and the ridge-vertex table that    *)
(* create_bounded_ridges returns holds no sentinel and agrees with         *)
(* vor.ridge_vertices on every slot that was finite.                       *)
(***************************************************************************)
C7_RawDiagramUntouched == [][RawUntouchedStep]_vars

C7_Witness ==
    /\ pc = "done"
    /\ \E k \in DiagramIds : vor = Diagram(k)
    /\ newridgevertices # vor.ridge_vertices
    /\ \E r \in RegionIds(vor) :
          HasSentinel(PyIndex(vor.regions, r)) /\ ~HasSentinel(PyIndex(newvorregions, r))

SoundRegions ==
    {r \in RegionIds(vor) :
        ~Degenerate(RegionPoints(newvorvertices, PyIndex(newvorregions, r)))}

(***************************************************************************)
(* C8: a region that is degenerate after assembly (fewer than 3 distinct   *)
(* vertices, or all of them on a line) does not abort the run: the loop    *)
(* over the regions ends and the cells of the other regions are returned.  *)
(***************************************************************************)
C8_DegenerateRegionDoesNotAbort ==
    /\ pc # "QhullError"
    /\ pc = "done" => Len(convexpolys) = Cardinality(SoundRegions)

IncidentUnbounded(s) ==
    {r \in Unbounded(vor) : s \in Range(PyIndex(vor.ridge_points, r))}

ClippedIndex(r) == PyIndex(PyIndex(newridgevertices, r), SentinelSlot(vor, r))

(***************************************************************************)
(* C10: after the assembly loop and before the corners, an open region of  *)
(* seed s holds its finite indices and exactly the indices written in      *)
(* place of the sentinel of the unbounded ridges incident to s; a closed   *)
(* region is as in the raw diagram.                                        *)
(***************************************************************************)
C10_OpenRegionsGainClippedIndices ==
    (pc = "corners" /\ j = 0) =>
        /\ \A s \in SeedIds(vor) :
              LET regidx == PyIndex(vor.point_region, s)
                  rr == PyIndex(vor.regions, regidx)
              IN HasSentinel(rr) =>
                    /\ Range(PyIndex(newvorregions, regidx)) =
                          (Range(rr) \ {-1}) \cup {ClippedIndex(r) : r \in IncidentUnbounded(s)}
                    /\ \A r \in IncidentUnbounded(s) :
                          ClippedIndex(r) >= Len(vor.vertices)
        /\ \A regidx \in RegionIds(vor) :
              ~HasSentinel(PyIndex(vor.regions, regidx)) =>
                  PyIndex(newvorregions, regidx) = PyIndex(vor.regions, regidx)

C10_Witness ==
    /\ pc = "corners" /\ j = 0
    /\ \E s \in SeedIds(vor) :
          /\ HasSentinel(PyIndex(vor.regions, PyIndex(vor.point_region, s)))
          /\ Cardinality(IncidentUnbounded(s)) = 2
    /\ \E regidx \in RegionIds(vor) :
          /\ PyIndex(vor.regions, regidx) # <<>>
          /\ ~HasSentinel(PyIndex(vor.regions, regidx))

====
